---- MODULE Spec2Model ----
(***************************************************************************)
(* Model of fake_genesis/views.py: the request handlers of the /genesis    *)
(* router (sensor_data, data_report, interactive_plot, plot_download_pdf,  *)
(* insert_sensor_data, get_sensor_metadata, get_unit_metadata) and the     *)
(* FixedJSONResponse.render serializer.                                    *)
(*                                                                         *)
(* Each handler is an async function: every await is a point where other   *)
(* requests and inserts may run, so a handler is a chain of actions, one   *)
(* per await, over the request's local variables.  The services the        *)
(* handlers call (fake_genesis/services.py) are modelled by their          *)
(* contracts.                                                              *)
(***************************************************************************)
EXTENDS Integers, Sequences, FiniteSets, TLC

\* ------------------------------------------------------------------ bounds
MaxPoints == 1
MaxChunks == 2
MaxLen == 2

\* -------------------------------------------------------------- input sets
Reqs == {"r1", "r2"}
SensorIds == {1, 2}
UnitIds == {1, 2}
KnownSensors == {1}
KnownUnits == {1}
Times == {0, 1}
TimeRanges == {tr \in Times \X Times : tr[1] <= tr[2]}
Values == {"1.0", "null"}
Formats == {"pdf", "xyz"}
SupportedFormats == {"pdf"}

\* Python's None, as a value comparable with every record of the model.
None == [none |-> TRUE]

\* ------------------------------------------------------------------- state
VARIABLES
    store_data,   \* SensorDataStore: sensor id -> chronological point series
    req           \* per request: the handler's locals, position and response

vars == <<store_data, req>>

\* ------------------------------------------------------------- JSON values
\* The content handed to json.dumps: nested mappings/sequences of primitives.
JNull == [t |-> "null"]
JStr(s) == [t |-> "str", s |-> s]
JInt(i) == [t |-> "int", i |-> i]
JFloat(f) == [t |-> "float", f |-> f]
JList(items) == [t |-> "list", items |-> items]
JDict(keys, items) == [t |-> "dict", keys |-> keys, items |-> items]

Floats == {"1.0", "nan", "inf", "-inf"}
NonFinite == {"nan", "inf", "-inf"}

\* ------------------------------------------------- FixedJSONResponse.render
\* The arguments render passes to json.dumps.
allow_nan_default == TRUE
allow_nan == FALSE
item_separator == ","
key_separator == ":"

\* json.encoder floatstr: the text of a float; a non-finite float raises
\* ValueError unless allow_nan.
floatstr(f) ==
    IF f \notin NonFinite THEN [raised |-> FALSE, chunks |-> <<f>>]
    ELSE IF ~allow_nan THEN [raised |-> TRUE, chunks |-> <<>>]
    ELSE [raised |-> FALSE,
          chunks |-> <<CASE f = "nan" -> "NaN"
                         [] f = "inf" -> "Infinity"
                         [] OTHER -> "-Infinity">>]

\* json.encoder iterencode: the chunks yielded for o, up to the point where
\* a ValueError is raised (raised = TRUE), or all of them.
RECURSIVE iterencode(_)
RECURSIVE iterencode_items(_, _, _)

\* The items of a list or mapping from index i on; keys is <<>> for a list.
iterencode_items(keys, items, i) ==
    IF i > Len(items) THEN [raised |-> FALSE, chunks |-> <<>>]
    ELSE LET sep == IF i > 1 THEN <<item_separator>> ELSE <<>>
             key == IF keys = <<>> THEN <<>>
                    ELSE <<"\"" \o keys[i] \o "\"", key_separator>>
             head == iterencode(items[i])
         IN IF head.raised
            THEN [raised |-> TRUE, chunks |-> sep \o key \o head.chunks]
            ELSE LET tail == iterencode_items(keys, items, i + 1)
                 IN [raised |-> tail.raised,
                     chunks |-> sep \o key \o head.chunks \o tail.chunks]

iterencode(o) ==
    CASE o.t = "null" -> [raised |-> FALSE, chunks |-> <<"null">>]
      [] o.t = "str" -> [raised |-> FALSE, chunks |-> <<"\"" \o o.s \o "\"">>]
      [] o.t = "int" -> [raised |-> FALSE, chunks |-> <<ToString(o.i)>>]
      [] o.t = "float" -> floatstr(o.f)
      [] o.t = "list" ->
            LET body == iterencode_items(<<>>, o.items, 1)
            IN [raised |-> body.raised,
                chunks |-> <<"[">> \o body.chunks
                           \o IF body.raised THEN <<>> ELSE <<"]">>]
      [] o.t = "dict" ->
            LET body == iterencode_items(o.keys, o.items, 1)
            IN [raised |-> body.raised,
                chunks |-> <<"{">> \o body.chunks
                           \o IF body.raised THEN <<>> ELSE <<"}">>]

\* json.dumps: the chunks are joined only once iterencode has yielded them
\* all; a ValueError leaves no text.
json_dumps(content) ==
    LET r == iterencode(content)
    IN IF r.raised THEN [raised |-> TRUE, text |-> <<>>]
       ELSE [raised |-> FALSE, text |-> r.chunks]

\* FixedJSONResponse.render: json.dumps(content, ...).encode("utf-8").  The
\* encoder class passed as cls only converts objects json does not know;
\* the content here is already made of JSON types.
FixedJSONResponse_render(content) == json_dumps(content)

\* --------------------------------------------------- services (contracts)
\* SensorDataService.get_sensor_metadata: the stored metadata, None if absent.
SensorDataService_get_sensor_metadata(sensor_id) ==
    IF sensor_id \in KnownSensors
    THEN [sensor_id |-> sensor_id, sensor_name |-> "S", unit_id |-> 1]
    ELSE None

\* UnitService.get_unit_metadata: the stored unit, None if absent.
UnitService_get_unit_metadata(unit_id) ==
    IF unit_id \in KnownUnits
    THEN [unit_id |-> unit_id, name |-> "U", symbol |-> "u"]
    ELSE None

\* SensorDataService.get_sensor_data: the points of the sensor inside
\* [start, end], in stored (chronological) order.
SensorDataService_get_sensor_data(data, sensor_id, start, end) ==
    SelectSeq(data[sensor_id], LAMBDA p : start <= p.timestamp /\ p.timestamp <= end)

\* A stored value as a JSON primitive: a missing value is an explicit null.
JValue(v) == IF v = "null" THEN JNull ELSE JFloat(v)

\* InteractiveGraphService.plot_from_sensor_data_json: the JSON description
\* of the chart of (metadata, series): a title and the two axes.
InteractiveGraphService_plot_from_sensor_data_json(metadata, series) ==
    JDict(<<"title", "x", "y">>,
          <<IF metadata = None THEN JNull ELSE JStr(metadata.sensor_name),
            JList([i \in 1..Len(series) |-> JInt(series[i].timestamp)]),
            JList([i \in 1..Len(series) |-> JValue(series[i].value)])>>)

\* InteractiveGraphService.figure_from_sensor_data: the internal figure.
InteractiveGraphService_figure_from_sensor_data(metadata, series) ==
    [figure |-> "object", title |-> metadata, points |-> series]

\* GraphPlotService.plot_from_sensor_data yields no image for an empty
\* series; for any other series it may or may not produce one.
GraphPlotService_may_yield_image(metadata, series) == series # <<>>

\* GraphPlotService.plot_from_sensor_data at scope exit: the image resource
\* is released.
GraphPlotService_exit(scope) == "released"

\* GraphPlotService.image_to_data_uri: the data URI of an image.
GraphPlotService_image_to_data_uri(image) ==
    [uri |-> "data:image/png;base64," \o image.bytes]

\* GraphConvertService.convert yields a file only for a supported format.
GraphConvertService_yields_file(fig, format) == format \in SupportedFormats

\* GraphConvertService.convert at scope exit: the stream is closed by the
\* context manager only when auto_close is set.
GraphConvertService_exit(stream, auto_close) ==
    IF stream = "open" /\ auto_close THEN "closed" ELSE stream

\* -------------------------------------------------------------- requests
Idle ==
    [kind |-> "idle", pc |-> "idle", sensor_id |-> 0, timerange |-> <<0, 0>>,
     format |-> "", sensor_metadata |-> None, sensor_point_data |-> <<>>,
     store_calls |-> <<>>, render_calls |-> <<>>, builder_calls |-> <<>>,
     scope |-> "unset", graph_image |-> None, graph_data_uri |-> None,
     uri_calls |-> <<>>, fig |-> None, fig_file |-> "unset",
     unit_id |-> 0, exc |-> "", response |-> "none",
     status |-> 0, body |-> None, headers |-> None,
     chunks |-> 0, reads |-> <<>>, disconnected |-> FALSE]

Init ==
    /\ store_data = [s \in SensorIds |-> <<>>]
    /\ req = [r \in Reqs |-> Idle]

\* rec with the fields of changes replaced.
Upd(rec, changes) ==
    [f \in DOMAIN rec |-> IF f \in DOMAIN changes THEN changes[f] ELSE rec[f]]

\* The record of one store call, as the handler issued it.
MetadataCall(sensor_id) ==
    [op |-> "get_sensor_metadata", sensor_id |-> sensor_id, range |-> <<>>]
DataCall(sensor_id, start, end) ==
    [op |-> "get_sensor_data", sensor_id |-> sensor_id, range |-> <<start, end>>]

\* A request arrives: the router binds the parameters and the handler runs
\* up to and including its first await, the metadata fetch
\* (lines 50, 67-68, 103, 118).
BeginFetch(r, kind, sensor_id, timerange, format) ==
    /\ req[r].pc = "idle"
    /\ req' = [req EXCEPT ![r] = Upd(Idle,
            [kind |-> kind, pc |-> "fetch_data", sensor_id |-> sensor_id,
             timerange |-> timerange, format |-> format,
             sensor_metadata |-> SensorDataService_get_sensor_metadata(sensor_id),
             store_calls |-> <<MetadataCall(sensor_id)>>])]
    /\ UNCHANGED store_data

\* HTTPException(status, detail): the client error FastAPI sends.
HTTPException(rec, status, detail) ==
    Upd(rec, [pc |-> "done", status |-> status, body |-> [detail |-> detail]])

\* An exception no handler catches: the server answers 500.
Unhandled(rec, exception) ==
    Upd(rec, [pc |-> "done", status |-> 500, body |-> [error |-> exception]])

\* The response has been sent: the request's objects are dropped.
Finish(r) ==
    /\ req[r].pc = "done"
    /\ req' = [req EXCEPT ![r] = Idle]
    /\ UNCHANGED store_data

\* ---------------------------------------------------- /genesis/data/sensor
sensor_data_begin(r) ==
    \E sensor_id \in SensorIds, timerange \in TimeRanges :
        BeginFetch(r, "sensor_data", sensor_id, timerange, "")

\* Lines 51-56: the series fetch, then the plain response.
sensor_data_return(r) ==
    /\ req[r].kind = "sensor_data" /\ req[r].pc = "fetch_data"
    /\ LET q == req[r]
           data == SensorDataService_get_sensor_data(
                       store_data, q.sensor_id, q.timerange[1], q.timerange[2])
       IN req' = [req EXCEPT ![r] = Upd(q,
            [pc |-> "done", sensor_point_data |-> data,
             store_calls |-> Append(q.store_calls,
                 DataCall(q.sensor_id, q.timerange[1], q.timerange[2])),
             status |-> 200,
             body |-> [metadata |-> q.sensor_metadata, data |-> data]])]
    /\ UNCHANGED store_data

\* ------------------------------------------------ /genesis/data/sensor/insert
\* Lines 137-138: the point is stored (the store keeps a series in time
\* order) and {"status": "ok"} is returned.
insert_sensor_data ==
    \E sensor_id \in KnownSensors, timestamp \in Times, value \in Values :
        /\ Len(store_data[sensor_id]) < MaxPoints
        /\ \A i \in 1..Len(store_data[sensor_id]) :
               store_data[sensor_id][i].timestamp <= timestamp
        /\ store_data' = [store_data EXCEPT ![sensor_id] =
               Append(@, [timestamp |-> timestamp, value |-> value])]
        /\ UNCHANGED req

\* ---------------------------------------------------- /genesis/query/sensor
\* Lines 147-150 without the None check: the metadata is returned as found.
get_sensor_metadata_unchecked(q, sensor_id, sensor_metadata) ==
    Upd(q, [pc |-> "done", status |-> 200, body |-> sensor_metadata])

\* Lines 147-150: 400 naming the id when there is no metadata, else the
\* metadata itself.
get_sensor_metadata_result(q, sensor_id, sensor_metadata) ==
    IF sensor_metadata = None
    THEN HTTPException(q, 400,
            "Sensor of id " \o ToString(sensor_id) \o " does not exist")
    ELSE Upd(q, [pc |-> "done", status |-> 200, body |-> sensor_metadata])

\* Lines 146-150.
get_sensor_metadata(r) ==
    \E sensor_id \in SensorIds :
        /\ req[r].pc = "idle"
        /\ LET sensor_metadata == SensorDataService_get_sensor_metadata(sensor_id)
               q == Upd(Idle, [kind |-> "get_sensor_metadata",
                               sensor_id |-> sensor_id,
                               sensor_metadata |-> sensor_metadata,
                               store_calls |-> <<MetadataCall(sensor_id)>>])
           IN req' = [req EXCEPT ![r] =
                        get_sensor_metadata_result(q, sensor_id, sensor_metadata)]
        /\ UNCHANGED store_data

\* ------------------------------------------------------ /genesis/query/unit
\* Lines 174-177: 400 naming the id when there is no unit, else the unit.
get_unit_metadata_result(q, unit_id, unit_metadata) ==
    IF unit_metadata = None
    THEN HTTPException(q, 400,
            "Unit of id " \o ToString(unit_id) \o " does not exist")
    ELSE Upd(q, [pc |-> "done", status |-> 200, body |-> unit_metadata])

\* Lines 173-177.
get_unit_metadata(r) ==
    \E unit_id \in UnitIds :
        /\ req[r].pc = "idle"
        /\ LET unit_metadata == UnitService_get_unit_metadata(unit_id)
               q == Upd(Idle, [kind |-> "get_unit_metadata", unit_id |-> unit_id])
           IN req' = [req EXCEPT ![r] =
                        get_unit_metadata_result(q, unit_id, unit_metadata)]
        /\ UNCHANGED store_data

\* ---------------------------------------------------- /genesis/data/report
data_report_begin(r) ==
    \E sensor_id \in SensorIds, timerange \in TimeRanges :
        BeginFetch(r, "data_report", sensor_id, timerange, "")

\* Line 69: the arguments of the series fetch.
data_report_data_call(q) ==
    DataCall(q.sensor_id, q.timerange[1], q.timerange[2])

\* Line 69.
data_report_fetch(r) ==
    /\ req[r].kind = "data_report" /\ req[r].pc = "fetch_data"
    /\ LET q == req[r]
           c == data_report_data_call(q)
       IN req' = [req EXCEPT ![r] = Upd(q,
            [pc |-> "plot",
             sensor_point_data |-> SensorDataService_get_sensor_data(
                 store_data, c.sensor_id, c.range[1], c.range[2]),
             store_calls |-> Append(q.store_calls, c)])]
    /\ UNCHANGED store_data

\* Line 72, entering the block: the renderer's scope opens and yields an
\* image or None.
data_report_plot(r) ==
    /\ req[r].kind = "data_report" /\ req[r].pc = "plot"
    /\ LET q == req[r] IN
       \E graph_image \in
            {None} \cup (IF GraphPlotService_may_yield_image(
                                q.sensor_metadata, q.sensor_point_data)
                         THEN {[bytes |-> "png"]} ELSE {}) :
          req' = [req EXCEPT ![r] = Upd(q,
            [pc |-> "in_scope", scope |-> "open", graph_image |-> graph_image,
             render_calls |-> Append(q.render_calls,
                 [metadata |-> q.sensor_metadata,
                  series |-> q.sensor_point_data])])]
    /\ UNCHANGED store_data

\* Lines 73-74 without the None check: the conversion is attempted on
\* whatever the renderer yielded, and fails on None.
data_report_body_unchecked(q, fails) ==
    IF q.graph_image = None \/ fails
    THEN Upd(q, [pc |-> "exit_scope", exc |-> "Exception",
                 uri_calls |-> Append(q.uri_calls, q.scope)])
    ELSE Upd(q, [pc |-> "exit_scope",
                 uri_calls |-> Append(q.uri_calls, q.scope),
                 graph_data_uri |->
                     GraphPlotService_image_to_data_uri(q.graph_image)])

\* Lines 73-74, the body of the block: an image is converted to a data
\* URI (the conversion may raise); with no image nothing is done.
data_report_body(q, fails) ==
    IF q.graph_image = None THEN Upd(q, [pc |-> "exit_scope"])
    ELSE IF fails
    THEN Upd(q, [pc |-> "exit_scope", exc |-> "Exception",
                 uri_calls |-> Append(q.uri_calls, q.scope)])
    ELSE Upd(q, [pc |-> "exit_scope",
                 uri_calls |-> Append(q.uri_calls, q.scope),
                 graph_data_uri |->
                     GraphPlotService_image_to_data_uri(q.graph_image)])

data_report_convert(r) ==
    /\ req[r].kind = "data_report" /\ req[r].pc = "in_scope"
    /\ \E fails \in BOOLEAN :
          req' = [req EXCEPT ![r] = data_report_body(req[r], fails)]
    /\ UNCHANGED store_data

\* Manual cleanup after the body instead of the async with statement: an
\* exception in the body skips the release.
data_report_scope_exit_manual(q) ==
    IF q.exc # "" THEN Unhandled(q, q.exc)
    ELSE Upd(q, [pc |-> "build_fig", scope |-> GraphPlotService_exit(q.scope)])

\* Lines 72-75, leaving the block: the async with statement runs the
\* renderer's exit on the normal and on the exceptional path, then the
\* exception (if any) leaves the handler.
data_report_scope_exit(q) ==
    LET left == Upd(q, [scope |-> GraphPlotService_exit(q.scope)])
    IN IF q.exc # "" THEN Unhandled(left, q.exc)
       ELSE Upd(left, [pc |-> "build_fig"])

data_report_exit(r) ==
    /\ req[r].kind = "data_report" /\ req[r].pc = "exit_scope"
    /\ req' = [req EXCEPT ![r] = data_report_scope_exit(req[r])]
    /\ UNCHANGED store_data

\* Line 76: the arguments handed to the interactive figure builder.
data_report_builder_args(q) ==
    [metadata |-> q.sensor_metadata, series |-> q.sensor_point_data]

\* Line 76.
data_report_build(r) ==
    /\ req[r].kind = "data_report" /\ req[r].pc = "build_fig"
    /\ LET q == req[r]
           a == data_report_builder_args(q)
       IN req' = [req EXCEPT ![r] = Upd(q,
            [pc |-> "respond",
             fig |-> InteractiveGraphService_plot_from_sensor_data_json(
                         a.metadata, a.series),
             builder_calls |-> Append(q.builder_calls, a)])]
    /\ UNCHANGED store_data

\* Lines 78-89: the report.
data_report_response(q) ==
    JDict(<<"interactive_report_route", "preview_image", "plot_interactive">>,
          <<JStr("https://example.com/report?sensor_id=" \o ToString(q.sensor_id)),
            IF q.graph_data_uri = None THEN JNull ELSE JStr(q.graph_data_uri.uri),
            q.fig>>)

\* FixedJSONResponse(content, ...): the constructor renders the body; a
\* ValueError of json.dumps leaves the handler.
FixedJSONResponse(q, content) ==
    LET b == FixedJSONResponse_render(content)
    IN IF b.raised THEN Unhandled(q, "ValueError")
       ELSE Upd(q, [pc |-> "done", status |-> 200,
                    response |-> "FixedJSONResponse", body |-> b.text])

\* Lines 78-91.
data_report_respond(r) ==
    /\ req[r].kind = "data_report" /\ req[r].pc = "respond"
    /\ req' = [req EXCEPT ![r] =
                  FixedJSONResponse(req[r], data_report_response(req[r]))]
    /\ UNCHANGED store_data

\* ----------------------------------------- /genesis/data/report/interactive
interactive_plot_begin(r) ==
    \E sensor_id \in SensorIds, timerange \in TimeRanges :
        BeginFetch(r, "interactive_plot", sensor_id, timerange, "")

\* The series fetch with the bounds of the range exchanged.
interactive_plot_data_call_swapped(q) ==
    DataCall(q.sensor_id, q.timerange[2], q.timerange[1])

\* Line 104: the arguments of the series fetch.
interactive_plot_data_call(q) ==
    DataCall(q.sensor_id, q.timerange[1], q.timerange[2])

\* Line 104.
interactive_plot_fetch(r) ==
    /\ req[r].kind = "interactive_plot" /\ req[r].pc = "fetch_data"
    /\ LET q == req[r]
           c == interactive_plot_data_call(q)
       IN req' = [req EXCEPT ![r] = Upd(q,
            [pc |-> "build_fig",
             sensor_point_data |-> SensorDataService_get_sensor_data(
                 store_data, c.sensor_id, c.range[1], c.range[2]),
             store_calls |-> Append(q.store_calls, c)])]
    /\ UNCHANGED store_data

\* Line 105: the arguments handed to the interactive figure builder.
interactive_plot_builder_args(q) ==
    [metadata |-> q.sensor_metadata, series |-> q.sensor_point_data]

\* Line 105.
interactive_plot_build(r) ==
    /\ req[r].kind = "interactive_plot" /\ req[r].pc = "build_fig"
    /\ LET q == req[r]
           a == interactive_plot_builder_args(q)
       IN req' = [req EXCEPT ![r] = Upd(q,
            [pc |-> "respond",
             fig |-> InteractiveGraphService_plot_from_sensor_data_json(
                         a.metadata, a.series),
             builder_calls |-> Append(q.builder_calls, a)])]
    /\ UNCHANGED store_data

\* Line 106.
interactive_plot_respond(r) ==
    /\ req[r].kind = "interactive_plot" /\ req[r].pc = "respond"
    /\ req' = [req EXCEPT ![r] = FixedJSONResponse(req[r], req[r].fig)]
    /\ UNCHANGED store_data

\* -------------------------------- /genesis/data/report/download/{format}
plot_download_pdf_begin(r) ==
    \E sensor_id \in SensorIds, timerange \in TimeRanges, format \in Formats :
        BeginFetch(r, "plot_download_pdf", sensor_id, timerange, format)

\* Lines 119-120: the series fetch, then the filename from the sensor's
\* name; the attribute access on None raises AttributeError.
plot_download_pdf_fetch(r) ==
    /\ req[r].kind = "plot_download_pdf" /\ req[r].pc = "fetch_data"
    /\ LET q == req[r]
           c == DataCall(q.sensor_id, q.timerange[1], q.timerange[2])
           fetched == Upd(q,
            [sensor_point_data |-> SensorDataService_get_sensor_data(
                 store_data, c.sensor_id, c.range[1], c.range[2]),
             store_calls |-> Append(q.store_calls, c)])
       IN req' = [req EXCEPT ![r] =
            IF q.sensor_metadata = None
            THEN Unhandled(fetched, "AttributeError")
            ELSE Upd(fetched, [pc |-> "build_fig"])]
    /\ UNCHANGED store_data

\* Line 121.
plot_download_pdf_build(r) ==
    /\ req[r].kind = "plot_download_pdf" /\ req[r].pc = "build_fig"
    /\ LET q == req[r]
       IN req' = [req EXCEPT ![r] = Upd(q,
            [pc |-> "convert",
             fig |-> InteractiveGraphService_figure_from_sensor_data(
                         q.sensor_metadata, q.sensor_point_data),
             builder_calls |-> Append(q.builder_calls,
                 [metadata |-> q.sensor_metadata,
                  series |-> q.sensor_point_data])])]
    /\ UNCHANGED store_data

\* Lines 122-125, entering the block: the converter yields an open file
\* stream, or no file.
plot_download_pdf_convert(r) ==
    /\ req[r].kind = "plot_download_pdf" /\ req[r].pc = "convert"
    /\ LET q == req[r]
       IN req' = [req EXCEPT ![r] = Upd(q,
            [pc |-> "in_scope",
             fig_file |-> IF GraphConvertService_yields_file(q.fig, q.format)
                          THEN "open" ELSE "none"])]
    /\ UNCHANGED store_data

\* Lines 128-131: the attachment header and the streaming response.
StreamingResponse(q) ==
    Upd(q, [pc |-> "exit_scope", response |-> "StreamingResponse",
            headers |-> [disposition |-> "attachment",
                         filename |-> <<"Report Sensor",
                                        q.sensor_metadata.sensor_name,
                                        q.format>>]])

\* Lines 126-131 without the check of line 126: whatever the converter
\* yielded is wrapped in a streaming response.
plot_download_pdf_body_unchecked(q) == StreamingResponse(q)

\* Lines 126-131, the body of the block: no file raises HTTPException(400);
\* a file is returned in a StreamingResponse with the attachment header.
plot_download_pdf_body(q) ==
    IF q.fig_file = "none"
    THEN Upd(q, [pc |-> "exit_scope", exc |-> "HTTPException"])
    ELSE StreamingResponse(q)

plot_download_pdf_respond(r) ==
    /\ req[r].kind = "plot_download_pdf" /\ req[r].pc = "in_scope"
    /\ req' = [req EXCEPT ![r] = plot_download_pdf_body(req[r])]
    /\ UNCHANGED store_data

\* Line 125: the auto_close argument of convert.
auto_close_default == TRUE
auto_close == FALSE

\* Lines 122-131, leaving the block by the raise or by the return: the
\* converter's exit runs, then the exception or the response leaves the
\* handler.
plot_download_pdf_exit(r) ==
    /\ req[r].kind = "plot_download_pdf" /\ req[r].pc = "exit_scope"
    /\ LET q == Upd(req[r],
                [fig_file |-> GraphConvertService_exit(req[r].fig_file, auto_close)])
       IN req' = [req EXCEPT ![r] =
            IF q.exc = "HTTPException"
            THEN HTTPException(q, 400, "Failed to generate report.")
            ELSE Upd(q, [pc |-> "streaming", status |-> 200])]
    /\ UNCHANGED store_data

\* Line 131, the response at work: the transport reads the next chunk of
\* the body from the stream it was given.
transport_read(r) ==
    /\ req[r].pc = "streaming" /\ req[r].chunks < MaxChunks
    /\ req' = [req EXCEPT ![r] = Upd(req[r],
            [chunks |-> req[r].chunks + 1,
             reads |-> Append(req[r].reads, req[r].fig_file)])]
    /\ UNCHANGED store_data

\* The stream is exhausted and the body is complete.
transport_end(r) ==
    /\ req[r].pc = "streaming"
    /\ req' = [req EXCEPT ![r] = Upd(req[r], [pc |-> "done"])]
    /\ UNCHANGED store_data

\* The client goes away while the body is being written.
client_disconnect(r) ==
    /\ req[r].pc = "streaming"
    /\ req' = [req EXCEPT ![r] =
                  Upd(req[r], [pc |-> "done", disconnected |-> TRUE])]
    /\ UNCHANGED store_data

\* ------------------------------------------------------------ the router
Next ==
    \/ insert_sensor_data
    \/ \E r \in Reqs :
        \/ sensor_data_begin(r) \/ sensor_data_return(r)
        \/ get_sensor_metadata(r) \/ get_unit_metadata(r)
        \/ data_report_begin(r) \/ data_report_fetch(r) \/ data_report_plot(r)
        \/ data_report_convert(r) \/ data_report_exit(r)
        \/ data_report_build(r) \/ data_report_respond(r)
        \/ interactive_plot_begin(r) \/ interactive_plot_fetch(r)
        \/ interactive_plot_build(r) \/ interactive_plot_respond(r)
        \/ plot_download_pdf_begin(r) \/ plot_download_pdf_fetch(r)
        \/ plot_download_pdf_build(r) \/ plot_download_pdf_convert(r)
        \/ plot_download_pdf_respond(r) \/ plot_download_pdf_exit(r)
        \/ transport_read(r) \/ transport_end(r) \/ client_disconnect(r)
        \/ Finish(r)

Spec == Init /\ [][Next]_vars

\* ------------------------------------------- render on arbitrary payloads
\* The payloads FixedJSONResponse.render is applied to: primitives, and
\* lists and mappings of them nested up to three deep, at most MaxLen long
\* at the inner level.
Prims == {JNull, JStr("a")} \cup {JFloat(f) : f \in Floats}

KeysOf(n) == [i \in 1..n |-> "k" \o ToString(i)]

Containers(elems, n) ==
    UNION {UNION {{JList(items), JDict(KeysOf(k), items)} :
                     items \in [1..k -> elems]} : k \in 0..n}

Level1 == Prims \cup Containers(Prims, MaxLen)

Level2 ==
    UNION {{JList(<<a>>), JDict(KeysOf(1), <<a>>)} : a \in Level1}
    \cup UNION {{JList(<<a, p>>), JList(<<p, a>>),
                 JDict(KeysOf(2), <<a, p>>), JDict(KeysOf(2), <<p, a>>)} :
                a \in Level1, p \in Prims}

JsonPayloads == Level1 \cup Level2

\* Both responding handlers, each about to build its response around the
\* same figure description.
InitJSON ==
    /\ store_data = [s \in SensorIds |-> <<>>]
    /\ \E fig \in JsonPayloads, uri \in {None, [uri |-> "data:image/png;base64,png"]} :
          req = [r \in Reqs |->
                   IF r = "r1"
                   THEN Upd(Idle, [kind |-> "data_report", pc |-> "respond",
                                   sensor_id |-> 1, graph_data_uri |-> uri,
                                   fig |-> fig])
                   ELSE Upd(Idle, [kind |-> "interactive_plot", pc |-> "respond",
                                   sensor_id |-> 1, fig |-> fig])]

NextJSON ==
    \E r \in Reqs : data_report_respond(r) \/ interactive_plot_respond(r)

SpecJSON == InitJSON /\ [][NextJSON]_vars

\* ================================================================ claims
Download(r) == req[r].kind = "plot_download_pdf"
Report(r) == req[r].kind = "data_report"
Interactive(r) == req[r].kind = "interactive_plot"
Done(r) == req[r].pc = "done"

\* The bytes of the response body: those of a rendered JSON response, none
\* for an error.
BodyBytes(q) == IF q.response = "FixedJSONResponse" THEN q.body ELSE <<>>

\* C1: in a download request where the converter yielded no file, no
\* StreamingResponse is built, no Content-Disposition header is set, no chunk
\* of a body is read, and the request ends with status 400.
C1_NoFileIsClientError ==
    \A r \in Reqs :
        (Download(r) /\ req[r].fig_file = "none") =>
            /\ req[r].response = "none"
            /\ req[r].headers = None
            /\ req[r].chunks = 0 /\ req[r].reads = <<>>
            /\ req[r].pc \in {"in_scope", "exit_scope", "done"}
            /\ (Done(r) => req[r].status = 400)

C1_Witness ==
    \E r \in Reqs :
        /\ Download(r) /\ Done(r)
        /\ req[r].format \notin SupportedFormats
        /\ req[r].fig_file = "none" /\ req[r].status = 400

\* C2: a download request for a sensor the store has no metadata for ends
\* with status 400 and no attachment header, and in no other way.
C2_UnknownSensorDownloadIs400 ==
    \A r \in Reqs :
        (Download(r) /\ Done(r) /\ req[r].sensor_metadata = None) =>
            (req[r].status = 400 /\ req[r].headers = None)

\* The position of chunk c in a body, 0 if absent.
IndexOf(body, c) ==
    IF \E i \in 1..Len(body) : body[i] = c
    THEN CHOOSE i \in 1..Len(body) : body[i] = c
    ELSE 0

\* C3: in a report request where the renderer yielded no image, nothing is
\* raised by the block, and the request completes with status 200 and a
\* report whose preview_image is null and whose plot_interactive is the
\* description the builder returned for the fetched metadata and series.
C3_NoImageStillReports ==
    \A r \in Reqs :
        (Report(r) /\ req[r].render_calls # <<>> /\ req[r].graph_image = None) =>
            /\ req[r].exc = ""
            /\ req[r].graph_data_uri = None
            /\ Done(r) =>
                LET q == req[r]
                    b == BodyBytes(q)
                    i == IndexOf(b, "\"preview_image\"")
                    j == IndexOf(b, "\"plot_interactive\"")
                    figure == InteractiveGraphService_plot_from_sensor_data_json(
                                  q.sensor_metadata, q.sensor_point_data)
                IN /\ q.status = 200
                   /\ i > 0 /\ b[i + 1] = ":" /\ b[i + 2] = "null"
                   /\ q.fig = figure
                   /\ j > i /\ SubSeq(b, j + 2, Len(b) - 1) = iterencode(figure).chunks

C3_Witness ==
    \E r \in Reqs :
        /\ Report(r) /\ Done(r) /\ req[r].status = 200
        /\ req[r].render_calls # <<>> /\ req[r].graph_image = None
        /\ req[r].sensor_point_data = <<>>

\* C4: the renderer's scope is open while the body of the block runs and
\* released on every way out of it (image, no image, conversion raising),
\* so released before any response or error leaves the handler; the data
\* URI conversion only ever runs with the scope open.
C4_ImageScopeReleased ==
    \A r \in Reqs : Report(r) =>
        /\ req[r].pc \in {"in_scope", "exit_scope"} => req[r].scope = "open"
        /\ req[r].pc \in {"build_fig", "respond", "done"} => req[r].scope = "released"
        /\ req[r].response # "none" => req[r].scope = "released"
        /\ \A i \in 1..Len(req[r].uri_calls) : req[r].uri_calls[i] = "open"

C4_Witness ==
    \E r1, r2 \in Reqs :
        /\ Report(r1) /\ Done(r1) /\ req[r1].exc # "" /\ req[r1].status = 500
        /\ req[r1].scope = "released"
        /\ Report(r2) /\ Done(r2) /\ req[r2].status = 200
        /\ req[r2].graph_data_uri # None /\ req[r2].uri_calls = <<"open">>
        /\ req[r2].scope = "released"

\* C6: the stream the converter yielded is open at every read the transport
\* makes of it, and stays open while the response is streaming: leaving the
\* block with auto_close = false did not close it.
C6_StreamOpenWhileRead ==
    \A r \in Reqs : Download(r) =>
        /\ \A i \in 1..Len(req[r].reads) : req[r].reads[i] = "open"
        /\ req[r].pc = "streaming" => req[r].fig_file = "open"
        /\ req[r].response = "StreamingResponse" => req[r].fig_file = "open"

C6_Witness ==
    \E r \in Reqs :
        /\ Download(r) /\ req[r].pc = "streaming"
        /\ req[r].chunks = MaxChunks /\ req[r].fig_file = "open"

\* A payload holds a NaN or an infinity at some depth.
RECURSIVE HasNonFinite(_)
HasNonFinite(o) ==
    CASE o.t = "float" -> o.f \in NonFinite
      [] o.t \in {"list", "dict"} ->
            \E i \in 1..Len(o.items) : HasNonFinite(o.items[i])
      [] OTHER -> FALSE

NonFiniteTokens == {"NaN", "Infinity", "-Infinity"}

\* C7: a report or interactive-figure response whose payload holds a NaN or
\* an infinity at any depth ends in an error with no body bytes at all, and
\* no rendered body ever holds a non-finite token.
C7_NonFiniteFailsWithoutBytes ==
    \A r \in Reqs : (Done(r) /\ (Report(r) \/ Interactive(r))) =>
        /\ HasNonFinite(req[r].fig) =>
              /\ req[r].status = 500 /\ req[r].body = [error |-> "ValueError"]
              /\ req[r].response = "none" /\ BodyBytes(req[r]) = <<>>
        /\ \A i \in 1..Len(BodyBytes(req[r])) :
              BodyBytes(req[r])[i] \notin NonFiniteTokens

C7_Witness ==
    \E r1, r2 \in Reqs :
        /\ Report(r1) /\ Done(r1) /\ Interactive(r2) /\ Done(r2)
        /\ req[r1].fig.t = "dict" /\ Len(req[r1].fig.items) = 2
        /\ ~HasNonFinite(req[r1].fig.items[1])
        /\ req[r1].fig.items[2].t = "list"
        /\ HasNonFinite(req[r1].fig.items[2])
        /\ req[r1].status = 500 /\ req[r2].status = 500
        /\ BodyBytes(req[r1]) = <<>> /\ BodyBytes(req[r2]) = <<>>

\* C8: a summary, report or interactive request for a sensor the store has
\* no metadata for ends in a client error, never in a success response, and
\* neither the renderer nor the figure builder is called for it.
C8_UnknownSensorIsNotFound ==
    \A r \in Reqs :
        (/\ req[r].kind \in {"sensor_data", "data_report", "interactive_plot"}
         /\ req[r].store_calls # <<>> /\ req[r].sensor_metadata = None) =>
            /\ req[r].render_calls = <<>> /\ req[r].builder_calls = <<>>
            /\ Done(r) => req[r].status \in {400, 404}

\* C9: a metadata query answers 400, with a message naming the requested
\* id, exactly when the store has no metadata for the id; otherwise it
\* answers with the stored metadata, unchanged.
C9_MetadataQueryOutcome ==
    \A r \in Reqs :
        /\ (req[r].kind = "get_sensor_metadata" /\ Done(r)) =>
            LET m == SensorDataService_get_sensor_metadata(req[r].sensor_id)
            IN /\ req[r].status = 400 <=> m = None
               /\ m = None => req[r].body = [detail |->
                    "Sensor of id " \o ToString(req[r].sensor_id) \o " does not exist"]
               /\ m # None => (req[r].status = 200 /\ req[r].body = m)
        /\ (req[r].kind = "get_unit_metadata" /\ Done(r)) =>
            LET m == UnitService_get_unit_metadata(req[r].unit_id)
            IN /\ req[r].status = 400 <=> m = None
               /\ m = None => req[r].body = [detail |->
                    "Unit of id " \o ToString(req[r].unit_id) \o " does not exist"]
               /\ m # None => (req[r].status = 200 /\ req[r].body = m)

C9_Witness ==
    \E r1, r2 \in Reqs :
        /\ req[r1].kind = "get_sensor_metadata" /\ Done(r1)
        /\ req[r1].sensor_id \notin KnownSensors /\ req[r1].status = 400
        /\ req[r2].kind = "get_unit_metadata" /\ Done(r2)
        /\ req[r2].unit_id \in KnownUnits /\ req[r2].status = 200

\* The store calls a report or interactive request is to issue, in order.
Fetches(q) ==
    <<MetadataCall(q.sensor_id),
      DataCall(q.sensor_id, q.timerange[1], q.timerange[2])>>

\* C10: a report request and an interactive request issue the same store
\* calls: the metadata fetch for the id, then the series fetch for the id
\* and the resolved range, each once and before any rendering; each hands
\* the pair it fetched to the figure builder; so for the same request and
\* the same fetched pair both carry the same figure description.
C10_SameFetchSemantics ==
    /\ \A r \in Reqs : (Report(r) \/ Interactive(r)) =>
        LET q == req[r] IN
        /\ q.store_calls = SubSeq(Fetches(q), 1, Len(q.store_calls))
        /\ (q.render_calls # <<>> \/ q.builder_calls # <<>> \/ q.status = 200)
              => q.store_calls = Fetches(q)
        /\ Len(q.builder_calls) <= 1
        /\ q.builder_calls # <<>> =>
              /\ q.builder_calls[1] =
                    [metadata |-> q.sensor_metadata, series |-> q.sensor_point_data]
              /\ q.fig = InteractiveGraphService_plot_from_sensor_data_json(
                             q.sensor_metadata, q.sensor_point_data)
    /\ \A r1, r2 \in Reqs :
        (/\ Report(r1) /\ Interactive(r2)
         /\ req[r1].status = 200 /\ req[r2].status = 200
         /\ req[r1].sensor_id = req[r2].sensor_id
         /\ req[r1].timerange = req[r2].timerange) =>
            /\ req[r1].store_calls = req[r2].store_calls
            /\ (/\ req[r1].sensor_metadata = req[r2].sensor_metadata
                /\ req[r1].sensor_point_data = req[r2].sensor_point_data) =>
                   /\ req[r1].builder_calls = req[r2].builder_calls
                   /\ req[r1].fig = req[r2].fig

C10_Witness ==
    \E r1, r2 \in Reqs :
        /\ Report(r1) /\ Interactive(r2)
        /\ req[r1].status = 200 /\ req[r2].status = 200
        /\ req[r1].sensor_id = req[r2].sensor_id
        /\ req[r1].timerange = req[r2].timerange
        /\ req[r1].timerange[1] < req[r1].timerange[2]
        /\ req[r1].sensor_point_data # <<>>
        /\ req[r1].fig = req[r2].fig

====
